---- MODULE Spec2Model ----
(***************************************************************************)
(* ApiService of zyd-fetch (src/index.ts, the TypeScript half of           *)
(* src/unnamed/part_000): the request interceptor, the response            *)
(* interceptor (success handler and error handler) and the public          *)
(* operations request / get / post / put / delete / upload.                *)
(*                                                                         *)
(* JavaScript values are written as strings: "true", "false" and           *)
(* "undefined" for an optional boolean, "n200" for the number 200,         *)
(* "s00000" for the string '00000'.  The Chinese messages of the source    *)
(* are written as ASCII stand-ins (one distinct string per message).       *)
(* url, params and data of a descriptor never reach a decision of the      *)
(* interceptors and are left out of the descriptor record.  download       *)
(* (browser only) and OSSService are outside the model.                    *)
(***************************************************************************)
EXTENDS Integers, Sequences, FiniteSets, TLC

VARIABLES requestInterceptor, responseInterceptor, onError, successStatusCode,
          statusMapOption, statusMap, pc, called, orig, sent, transportCalls, envelope, failure,
          resolved, rejected, notified

config == <<requestInterceptor, responseInterceptor, onError, successStatusCode,
           statusMapOption, statusMap>>
vars == <<requestInterceptor, responseInterceptor, onError, successStatusCode,
          statusMapOption, statusMap, pc, called, orig, sent, transportCalls, envelope, failure,
          resolved, rejected, notified>>

\* Number of call slots of one gateway instance.
NumCalls == 2
Calls == 1..NumCalls

Null == [kind |-> "none"]

(***************************************************************************)
(* Status table                                                            *)
(***************************************************************************)
\* _statusMap: the built-in table, 13 entries.
_statusMap ==
  [s \in {400, 401, 403, 404, 405, 408, 500, 501, 502, 503, 504, 505, 506} |->
     CASE s = 400 -> "bad-request"
       [] s = 401 -> "unauthorized-please-login"
       [] s = 403 -> "access-denied"
       [] s = 404 -> "bad-request-resource-not-found"
       [] s = 405 -> "method-not-allowed"
       [] s = 408 -> "request-timed-out"
       [] s = 500 -> "server-side-error"
       [] s = 501 -> "not-implemented"
       [] s = 502 -> "network-error"
       [] s = 503 -> "service-unavailable"
       [] s = 504 -> "network-timed-out"
       [] s = 505 -> "http-version-not-supported"
       [] s = 506 -> "http-proxy-error"]

\* Tables a caller may pass as the statusMap option: the README's example
\* shape (404 and 500 only), one of them with an empty message for 500, and
\* the empty table.
CustomTables ==
  { [s \in {404, 500} |-> IF s = 404 THEN "resource-missing" ELSE "server-hiccup"],
    [s \in {404, 500} |-> IF s = 404 THEN "resource-missing" ELSE ""],
    [s \in {} |-> ""] }

\* The statusMap option of the constructor: absent, or one of the tables.
StatusMapOptions ==
  { [given |-> FALSE, table |-> [s \in {} |-> ""]] }
  \cup { [given |-> TRUE, table |-> t] : t \in CustomTables }

\* Variant: the override is laid over the built-in table instead of replacing it.
ResolveStatusMap_Overlay(option) ==
  IF option.given
  THEN [s \in (DOMAIN _statusMap) \cup (DOMAIN option.table) |->
          IF s \in DOMAIN option.table THEN option.table[s] ELSE _statusMap[s]]
  ELSE _statusMap

\* this.statusMap = statusMap || _statusMap
ResolveStatusMap(option) == IF option.given THEN option.table ELSE _statusMap

\* HTTP statuses the transport may fail with: in both tables (404), in both
\* but possibly empty in the custom one (500), only built-in (400), in neither (418).
Statuses == {400, 404, 418, 500}

\* JavaScript truthiness of this.statusMap[status] (undefined when absent).
TableHit(table, status) == status \in DOMAIN table /\ table[status] # ""

\* `connection-error${status}`
ConnErrMsg(status) == "connection-error" \o ToString(status)

GenericMsg == "connect-to-server-failed"
TimeoutMsg == "server-response-timed-out-please-refresh"

(***************************************************************************)
(* Descriptors                                                             *)
(***************************************************************************)
Methods == {"get", "post", "put", "delete"}
OptBool == {"true", "false", "undefined"}

NoHeaders == [h \in {} |-> ""]
CustomHeader == [h \in {"X-Custom-Header"} |-> "foobar"]
JsonHeader == [h \in {"Content-Type"} |-> "application/json"]
Multipart == [h \in {"Content-Type"} |-> "multipart/form-data"]

\* Object spread { ...a, ...b }: keys of b win.
Spread(a, b) == [h \in (DOMAIN a) \cup (DOMAIN b) |-> IF h \in DOMAIN b THEN b[h] ELSE a[h]]

Descriptor(method, hasErrorMessage, returnFullResponse, headers) ==
  [method |-> method, hasErrorMessage |-> hasErrorMessage,
   returnFullResponse |-> returnFullResponse, headers |-> headers]

\* get / post / put / delete (url, params|data, hasErrorMessage = true, headers = {}).
\* An argument passed as undefined takes the default.
Verb(method, hasErrorMessage, headers) ==
  Descriptor(method,
             IF hasErrorMessage = "undefined" THEN "true" ELSE hasErrorMessage,
             "undefined", headers)

\* The extra config given to upload; its headers key may be absent
\* (hasHeaders FALSE, config.headers then reads undefined).
ExtraConfigs ==
  { cfg \in [hasErrorMessage : OptBool, returnFullResponse : {"true", "undefined"},
             hasHeaders : BOOLEAN, headers : {NoHeaders, CustomHeader, JsonHeader}] :
      ~cfg.hasHeaders => cfg.headers = NoHeaders }

\* upload: { method: 'post', url, data,
\*           headers: { 'Content-Type': 'multipart/form-data', ...config.headers },
\*           ...config }
\* The trailing ...config writes every key config has, headers included.
Upload(cfg) ==
  LET merged == Spread(Multipart, IF cfg.hasHeaders THEN cfg.headers ELSE NoHeaders)
  IN  Descriptor("post", cfg.hasErrorMessage, cfg.returnFullResponse,
                 IF cfg.hasHeaders THEN cfg.headers ELSE merged)

\* Descriptors a caller hands to request directly.
RequestDescriptors ==
  { Descriptor(m, e, r, h) : m \in {"get"}, e \in OptBool,
                             r \in {"true", "undefined"}, h \in {NoHeaders} }

(***************************************************************************)
(* Hooks given at construction                                             *)
(***************************************************************************)
\* requestInterceptor option: absent, returns its input, sets the
\* Authorization header and returns the config (README), or throws.
RequestHooks == {"none", "identity", "authorize", "throw"}
\* responseInterceptor option: absent, returns the response (README),
\* returns a value of its own, or throws.
ResponseHooks == {"none", "identity", "custom", "throw"}

Bearer == [h \in {"Authorization"} |-> "Bearer token"]

\* The value the caller's requestInterceptor returns for a descriptor.
RequestHookReturn(hook, d) ==
  IF hook = "authorize" THEN [d EXCEPT !.headers = Spread(d.headers, Bearer)] ELSE d

\* The value the caller's responseInterceptor returns for a response.
ResponseHookReturn(hook, response) ==
  IF hook = "custom" THEN [kind |-> "hooked", of |-> response] ELSE response

(***************************************************************************)
(* What the transport produces                                             *)
(***************************************************************************)
\* Business codes in a body: 200, 1001, '00000', or no code field.
Codes == {"n200", "n1001", "s00000", "undefined"}
SuccessCodes == {"n200", "s00000"}
BizMsgs == {"biz-msg-a", "biz-msg-b"}

\* response.data; "undefined" code and msg stand for a body without them
\* (binary, empty or null body: `data || {}`).
Bodies ==
  { [kind |-> "data", code |-> c, msg |-> m] : c \in Codes \ {"undefined"}, m \in BizMsgs }
  \cup { [kind |-> "data", code |-> "undefined", msg |-> "undefined"] }

Response(d, isBlob, body) ==
  [kind |-> "response", headers |-> [isBlob |-> isBlob], config |-> d, data |-> body]

\* Messages a transport failure is born with.
TimeoutText == "timeout of 5000ms exceeded"
NetworkText == "Network Error"
\* String.prototype.includes('timeout') on a message of the model.
IncludesTimeout(message) == message = TimeoutText

\* An error object.  status 0: no error.response.  msgSerialized: the
\* serialized form has the message (an AxiosError's toJSON does, a plain
\* Error's own enumerable properties do not).  restHasTimeout: the rest of
\* the serialized form (code, config, stack ...) contains "timeout".
Failure(origin, hasConfig, cfg, status, isCancel, message, msgSerialized, restHasTimeout) ==
  [kind |-> "failure", origin |-> origin, hasConfig |-> hasConfig, config |-> cfg,
   status |-> status, isCancel |-> isCancel, message |-> message,
   msgSerialized |-> msgSerialized, restHasTimeout |-> restHasTimeout]

HttpFailures(d) ==
  { Failure("http", TRUE, d, s, FALSE, "Request failed with status code", TRUE, TRUE) :
      s \in Statuses }
NetworkFailures(d) ==
  { Failure("network", TRUE, d, 0, FALSE, m, TRUE, r) :
      m \in {TimeoutText, NetworkText}, r \in BOOLEAN }
CancelFailures(d) ==
  { Failure("cancel", TRUE, d, 0, TRUE, "canceled", TRUE, r) : r \in BOOLEAN }
TransportFailures(d) == HttpFailures(d) \cup NetworkFailures(d) \cup CancelFailures(d)

\* What a throwing hook throws: a plain Error, no config, no response.
HookError(origin) == Failure(origin, FALSE, Null, 0, FALSE, "hook error", FALSE, FALSE)

(***************************************************************************)
(* The response interceptor                                                *)
(***************************************************************************)
Truthy(v) == v = "true"

\* JSON.stringify(error).includes('timeout')
SerializedIncludesTimeout(error) ==
  error.restHasTimeout \/ (error.msgSerialized /\ IncludesTimeout(error.message))

\* Variant: the timeout upgrade of the generic message is missing.
ResolveMessage_NoTimeoutUpgrade(error, table) ==
  IF error.status # 0
  THEN [error EXCEPT !.message = IF TableHit(table, error.status)
                                 THEN table[error.status]
                                 ELSE ConnErrMsg(error.status)]
  ELSE [error EXCEPT !.message = GenericMsg]

\* Error handler, message resolution: the error as annotated.
ResolveMessage(error, table) ==
  IF error.status # 0
  THEN [error EXCEPT !.message = IF TableHit(table, error.status)
                                 THEN table[error.status]
                                 ELSE ConnErrMsg(error.status)]
  ELSE LET generic == [error EXCEPT !.message = GenericMsg]
       IN  IF SerializedIncludesTimeout(generic)
           THEN [generic EXCEPT !.message = TimeoutMsg]
           ELSE generic

\* config?.hasErrorMessage of (error.config || {})
ErrorFlag(error) == IF error.hasConfig THEN error.config.hasErrorMessage ELSE "undefined"

\* Variant: the handler without the axios.isCancel early return.
OnRejected_NoCancelCheck(error, table, hasOnError) ==
  IF ErrorFlag(error) # "false"
  THEN LET annotated == ResolveMessage(error, table)
       IN  [error |-> annotated,
            notify |-> IF hasOnError THEN <<annotated.message>> ELSE << >>]
  ELSE [error |-> error, notify |-> << >>]

\* Error handler: the error it rejects with and the messages it hands to
\* onError (none when onError is absent).
OnRejected(error, table, hasOnError) ==
  IF error.isCancel
  THEN [error |-> error, notify |-> << >>]
  ELSE IF ErrorFlag(error) # "false"
       THEN LET annotated == ResolveMessage(error, table)
            IN  [error |-> annotated,
                 notify |-> IF hasOnError THEN <<annotated.message>> ELSE << >>]
       ELSE [error |-> error, notify |-> << >>]

\* Variant: the business check without the comparison with the success code.
BusinessNotify_NoCodeCheck(response, successCode, hasOnError) ==
  IF Truthy(response.config.hasErrorMessage)
  THEN IF hasOnError THEN <<response.data.msg>> ELSE << >>
  ELSE << >>

\* Success handler without a responseInterceptor: the business check.
BusinessNotify(response, successCode, hasOnError) ==
  IF Truthy(response.config.hasErrorMessage) /\ response.data.code # successCode
  THEN IF hasOnError THEN <<response.data.msg>> ELSE << >>
  ELSE << >>

\* Variant: only returnFullResponse selects the full response.
Shape_IgnoresBlob(response) ==
  IF Truthy(response.config.returnFullResponse) THEN response ELSE response.data

\* Success handler without a responseInterceptor: the value returned.
Shape(response) ==
  IF response.headers.isBlob \/ Truthy(response.config.returnFullResponse)
  THEN response
  ELSE response.data

\* Variant: the business check runs before the responseInterceptor is consulted.
OnFulfilled_CheckBeforeHook(response, hook, successCode, hasOnError) ==
  [value |-> IF hook # "none" THEN ResponseHookReturn(hook, response) ELSE Shape(response),
   notify |-> BusinessNotify(response, successCode, hasOnError)]

\* Success handler: the value it returns and the messages it hands to onError.
OnFulfilled(response, hook, successCode, hasOnError) ==
  IF hook # "none"
  THEN [value |-> ResponseHookReturn(hook, response), notify |-> << >>]
  ELSE [value |-> Shape(response),
        notify |-> BusinessNotify(response, successCode, hasOnError)]

Notes(c, msgs) == [i \in 1..Len(msgs) |-> [call |-> c, msg |-> msgs[i]]]

(***************************************************************************)
(* State machine                                                           *)
(***************************************************************************)
\* new ApiService(options): the options are captured once.
Constructed ==
  /\ requestInterceptor \in RequestHooks
  /\ responseInterceptor \in ResponseHooks
  /\ onError \in BOOLEAN
  /\ successStatusCode \in SuccessCodes
  /\ statusMapOption \in StatusMapOptions
  /\ statusMap = ResolveStatusMap(statusMapOption)
  /\ called = [c \in Calls |-> Null]
  /\ orig = [c \in Calls |-> Null]
  /\ sent = [c \in Calls |-> Null]
  /\ transportCalls = [c \in Calls |-> 0]
  /\ envelope = [c \in Calls |-> Null]
  /\ failure = [c \in Calls |-> Null]
  /\ resolved = [c \in Calls |-> Null]
  /\ rejected = [c \in Calls |-> Null]
  /\ notified = << >>

\* One call is made on the gateway.
Init ==
  /\ Constructed
  /\ pc = [c \in Calls |-> IF c = 1 THEN "idle" ELSE "off"]

\* request(config): this.service.request(config) starts the chain
\*   request interceptor -> transport -> response interceptor.
CallRequest(c) ==
  /\ pc[c] = "idle"
  /\ \E d \in RequestDescriptors : orig' = [orig EXCEPT ![c] = d]
  /\ called' = [called EXCEPT ![c] = [kind |-> "request"]]
  /\ pc' = [pc EXCEPT ![c] = "request"]
  /\ UNCHANGED <<config, sent, transportCalls, envelope, failure, resolved, rejected, notified>>

\* get / post / put / delete: build the descriptor, then request.
CallVerb(c) ==
  /\ pc[c] = "idle"
  /\ \E m \in Methods, e \in OptBool, h \in {NoHeaders, CustomHeader} :
        orig' = [orig EXCEPT ![c] = Verb(m, e, h)]
  /\ called' = [called EXCEPT ![c] = [kind |-> "verb"]]
  /\ pc' = [pc EXCEPT ![c] = "request"]
  /\ UNCHANGED <<config, sent, transportCalls, envelope, failure, resolved, rejected, notified>>

\* upload: build the descriptor, then request.
CallUpload(c) ==
  /\ pc[c] = "idle"
  /\ \E cfg \in ExtraConfigs :
        /\ orig' = [orig EXCEPT ![c] = Upload(cfg)]
        /\ called' = [called EXCEPT ![c] = [kind |-> "upload", config |-> cfg]]
  /\ pc' = [pc EXCEPT ![c] = "request"]
  /\ UNCHANGED <<config, sent, transportCalls, envelope, failure, resolved, rejected, notified>>

\* Variant: the hook is called but its return value is dropped.
RequestInterceptor_DropsReturn(c) ==
  /\ pc[c] = "request"
  /\ IF requestInterceptor = "throw"
     THEN /\ failure' = [failure EXCEPT ![c] = HookError("requestInterceptor")]
          /\ pc' = [pc EXCEPT ![c] = "failed"]
          /\ UNCHANGED sent
     ELSE /\ sent' = [sent EXCEPT ![c] = orig[c]]
          /\ pc' = [pc EXCEPT ![c] = "dispatch"]
          /\ UNCHANGED failure
  /\ UNCHANGED <<config, called, orig, transportCalls, envelope, resolved, rejected, notified>>

\* Request interceptor: the hook's return value is what goes on.  The
\* handlers registered with interceptors.request.use / response.use are
\* links of one promise chain,
\*   then(requestFulfilled, requestRejected).then(transport)
\*     .then(responseFulfilled, responseRejected),
\* so a throw of the hook rejects the chain, the transport link is skipped
\* and the rejection arrives at the response interceptor's error handler.
RequestInterceptor(c) ==
  /\ pc[c] = "request"
  /\ IF requestInterceptor = "throw"
     THEN /\ failure' = [failure EXCEPT ![c] = HookError("requestInterceptor")]
          /\ pc' = [pc EXCEPT ![c] = "failed"]
          /\ UNCHANGED sent
     ELSE /\ sent' = [sent EXCEPT ![c] =
                        IF requestInterceptor = "none" THEN orig[c]
                        ELSE RequestHookReturn(requestInterceptor, orig[c])]
          /\ pc' = [pc EXCEPT ![c] = "dispatch"]
          /\ UNCHANGED failure
  /\ UNCHANGED <<config, called, orig, transportCalls, envelope, resolved, rejected, notified>>

\* The transport answers with a response (2xx).
TransportResponds(c) ==
  /\ pc[c] = "dispatch"
  /\ \E b \in BOOLEAN, body \in Bodies :
        envelope' = [envelope EXCEPT ![c] = Response(sent[c], b, body)]
  /\ transportCalls' = [transportCalls EXCEPT ![c] = @ + 1]
  /\ pc' = [pc EXCEPT ![c] = "response"]
  /\ UNCHANGED <<config, called, orig, sent, failure, resolved, rejected, notified>>

\* The transport fails: HTTP status, network, timeout or cancellation.
TransportFails(c) ==
  /\ pc[c] = "dispatch"
  /\ \E f \in TransportFailures(sent[c]) : failure' = [failure EXCEPT ![c] = f]
  /\ transportCalls' = [transportCalls EXCEPT ![c] = @ + 1]
  /\ pc' = [pc EXCEPT ![c] = "failed"]
  /\ UNCHANGED <<config, called, orig, sent, envelope, resolved, rejected, notified>>

\* Response interceptor, success handler; request returns what it returns.
\* A throwing responseInterceptor rejects the call.
ResponseFulfilled(c) ==
  /\ pc[c] = "response"
  /\ IF responseInterceptor = "throw"
     THEN /\ rejected' = [rejected EXCEPT ![c] = HookError("responseInterceptor")]
          /\ UNCHANGED <<resolved, notified>>
     ELSE LET r == OnFulfilled(envelope[c], responseInterceptor, successStatusCode, onError)
          IN  /\ resolved' = [resolved EXCEPT ![c] = r.value]
              /\ notified' = notified \o Notes(c, r.notify)
              /\ UNCHANGED rejected
  /\ pc' = [pc EXCEPT ![c] = "done"]
  /\ UNCHANGED <<config, called, orig, sent, transportCalls, envelope, failure>>

\* Variant: the error handler returns the error instead of rejecting with it.
ResponseRejected_Returns(c) ==
  /\ pc[c] = "failed"
  /\ LET r == OnRejected(failure[c], statusMap, onError)
     IN  /\ resolved' = [resolved EXCEPT ![c] = r.error]
         /\ notified' = notified \o Notes(c, r.notify)
  /\ pc' = [pc EXCEPT ![c] = "done"]
  /\ UNCHANGED <<config, called, orig, sent, transportCalls, envelope, failure, rejected>>

\* Variant: the handler reads hasErrorMessage from a descriptor kept on the
\* instance (the one of some call that has started) instead of error.config.
ResponseRejected_SharedDescriptor(c) ==
  /\ pc[c] = "failed"
  /\ LET k == CHOOSE k \in Calls : orig[k] # Null /\ (k # c \/ \A j \in Calls \ {c} : orig[j] = Null)
         seen == IF failure[c].hasConfig
                 THEN [failure[c] EXCEPT !.config = orig[k]]
                 ELSE failure[c]
         r == OnRejected(seen, statusMap, onError)
     IN  /\ rejected' = [rejected EXCEPT ![c] = [r.error EXCEPT !.config = failure[c].config]]
         /\ notified' = notified \o Notes(c, r.notify)
  /\ pc' = [pc EXCEPT ![c] = "done"]
  /\ UNCHANGED <<config, called, orig, sent, transportCalls, envelope, failure, resolved>>

\* Response interceptor, error handler; request rethrows what it rejects with.
ResponseRejected(c) ==
  /\ pc[c] = "failed"
  /\ LET r == OnRejected(failure[c], statusMap, onError)
     IN  /\ rejected' = [rejected EXCEPT ![c] = r.error]
         /\ notified' = notified \o Notes(c, r.notify)
  /\ pc' = [pc EXCEPT ![c] = "done"]
  /\ UNCHANGED <<config, called, orig, sent, transportCalls, envelope, failure, resolved>>

Next ==
  \E c \in Calls :
    \/ CallRequest(c)
    \/ CallVerb(c)
    \/ CallUpload(c)
    \/ RequestInterceptor(c)
    \/ TransportResponds(c)
    \/ TransportFails(c)
    \/ ResponseFulfilled(c)
    \/ ResponseRejected(c)

Spec == Init /\ [][Next]_vars

(***************************************************************************)
(* Several calls in flight on one gateway                                  *)
(***************************************************************************)
\* The calls made when several are in flight: a verb call with the default
\* hasErrorMessage, a request with hasErrorMessage false, an upload without
\* hasErrorMessage.
ParUpload ==
  [hasErrorMessage |-> "undefined", returnFullResponse |-> "true",
   hasHeaders |-> FALSE, headers |-> NoHeaders]
ParCalls ==
  { [called |-> [kind |-> "verb"], orig |-> Verb("get", "true", NoHeaders)],
    [called |-> [kind |-> "request"],
     orig |-> Descriptor("get", "false", "undefined", NoHeaders)],
    [called |-> [kind |-> "upload", config |-> ParUpload], orig |-> Upload(ParUpload)] }

\* ... and what the transport answers them: a body with a business error,
\* a 404, a timeout, or a cancellation.
ParBody == [kind |-> "data", code |-> "n1001", msg |-> "biz-msg-a"]
InScope ==
  \A c \in Calls :
    /\ orig[c] # Null => [called |-> called[c], orig |-> orig[c]] \in ParCalls
    /\ envelope[c] # Null => (envelope[c].data = ParBody /\ ~envelope[c].headers.isBlob)
    /\ (failure[c] # Null /\ failure[c].origin = "http") => failure[c].status = 404
    /\ (failure[c] # Null /\ failure[c].origin = "cancel") => ~failure[c].restHasTimeout
    /\ (failure[c] # Null /\ failure[c].origin = "network") =>
          (failure[c].restHasTimeout /\ failure[c].message = TimeoutText)

\* One gateway with onError, the built-in table and no responseInterceptor;
\* every call slot is used, and the calls interleave freely.
InitPar ==
  /\ Constructed
  /\ requestInterceptor \in {"authorize", "throw"}
  /\ responseInterceptor = "none"
  /\ onError
  /\ successStatusCode = "n200"
  /\ ~statusMapOption.given
  /\ pc = [c \in Calls |-> "idle"]

NextPar ==
  \E c \in Calls :
    \/ CallRequest(c) /\ InScope'
    \/ CallVerb(c) /\ InScope'
    \/ CallUpload(c) /\ InScope'
    \/ RequestInterceptor(c) /\ InScope'
    \/ TransportResponds(c) /\ InScope'
    \/ TransportFails(c) /\ InScope'
    \/ ResponseFulfilled(c) /\ InScope'
    \/ ResponseRejected(c) /\ InScope'

SpecPar == InitPar /\ [][NextPar]_vars

TypeOK ==
  /\ pc \in [Calls -> {"off", "idle", "request", "dispatch", "response", "failed", "done"}]
  /\ transportCalls \in [Calls -> 0..1]
  /\ Len(notified) <= NumCalls

(***************************************************************************)
(* Properties                                                              *)
(***************************************************************************)
Done(c) == pc[c] = "done"
Succeeded(c) == envelope[c] # Null
Failed(c) == failure[c] # Null
\* The messages onError received on behalf of call c, in order.
NotesOf(c) ==
  LET Mine(n) == n.call = c
      mine == SelectSeq(notified, Mine)
  IN  [i \in 1..Len(mine) |-> mine[i].msg]
\* Two error objects that are the same but for the message they carry.
SameFailure(a, b) == [a EXCEPT !.message = ""] = [b EXCEPT !.message = ""]

\* C1 (as claimed): a call whose descriptor has hasErrorMessage false never
\* has onError invoked for it, whatever its outcome.
C1_SilencedNeverNotified ==
  \A c \in Calls :
    (orig[c] # Null /\ orig[c].hasErrorMessage = "false") => NotesOf(c) = << >>

\* C2: a cancellation is rejected as it came (message untouched, no value
\* resolved) and onError is not invoked, for every hasErrorMessage.
C2_CancellationPassesThrough ==
  \A c \in Calls :
    (Done(c) /\ Failed(c) /\ failure[c].isCancel)
      => /\ rejected[c] = failure[c]
         /\ resolved[c] = Null
         /\ NotesOf(c) = << >>

C2_Witness ==
  \E c \in Calls :
    /\ Done(c) /\ Failed(c) /\ failure[c].isCancel
    /\ orig[c].hasErrorMessage = "true"
    /\ onError
    /\ rejected[c].message = "canceled"

\* The table C3 speaks of: the override when one was given, else the built-in one.
C3_Table == IF statusMapOption.given THEN statusMapOption.table ELSE _statusMap
C3_Covers(c) ==
  /\ Done(c) /\ Failed(c)
  /\ ~failure[c].isCancel
  /\ failure[c].status # 0
  /\ orig[c].hasErrorMessage # "false"

\* C3 (as claimed): an HTTP failure gets the table's entry for its status
\* whenever the status is present in the table, and connection-error<status>
\* otherwise; onError, when configured, receives that message.
C3_EntryWheneverPresent ==
  \A c \in Calls :
    C3_Covers(c) =>
      LET s == failure[c].status
          m == IF s \in DOMAIN C3_Table THEN C3_Table[s] ELSE ConnErrMsg(s)
      IN  /\ rejected[c].message = m
          /\ onError => NotesOf(c) = <<m>>

\* C3 (amended): an HTTP failure gets the table's entry for its status when
\* the table has a non-empty entry for it, and connection-error<status> when
\* the status is absent or its entry is the empty string; the table is the
\* override when one was given (wholesale) and the built-in one otherwise;
\* onError, when configured, receives exactly that message.
C3_EntryWhenNonEmpty ==
  \A c \in Calls :
    C3_Covers(c) =>
      LET s == failure[c].status
          m == IF s \in DOMAIN C3_Table /\ C3_Table[s] # ""
               THEN C3_Table[s] ELSE ConnErrMsg(s)
      IN  /\ rejected[c].message = m
          /\ onError => NotesOf(c) = <<m>>
          /\ ~onError => NotesOf(c) = << >>

\* A status only the built-in table knows, failing under an override.
C3_Witness ==
  \E c \in Calls :
    /\ C3_Covers(c)
    /\ statusMapOption.given
    /\ failure[c].status = 400
    /\ onError
    /\ NotesOf(c) = <<ConnErrMsg(400)>>

C4_Covers(c) ==
  /\ Done(c) /\ Failed(c)
  /\ failure[c].origin = "network"
  /\ orig[c].hasErrorMessage # "false"

C5_Covers(c) ==
  /\ Done(c) /\ Succeeded(c)
  /\ responseInterceptor = "none"
  /\ envelope[c].data.code # successStatusCode
  /\ orig[c].hasErrorMessage # "false"
  /\ onError

\* C5 (as claimed): without a responseInterceptor, a response whose business
\* code differs from the success code, on a call whose hasErrorMessage is
\* true or omitted, has onError invoked exactly once with the body's msg,
\* and the call resolves.
C5_NotifiedUnlessSilenced ==
  \A c \in Calls :
    C5_Covers(c) =>
      /\ NotesOf(c) = <<envelope[c].data.msg>>
      /\ resolved[c] # Null
      /\ rejected[c] = Null

\* C6: a response whose business code equals the success code never has
\* onError invoked, whatever hasErrorMessage and returnFullResponse are.
C6_SuccessCodeIsQuiet ==
  \A c \in Calls :
    (Succeeded(c) /\ envelope[c].data.code = successStatusCode) => NotesOf(c) = << >>

C6_Witness ==
  \E c \in Calls :
    /\ Done(c) /\ Succeeded(c)
    /\ envelope[c].data.code = successStatusCode
    /\ responseInterceptor = "none"
    /\ orig[c].hasErrorMessage = "true"
    /\ onError
    /\ resolved[c] # Null

\* C7: without a responseInterceptor, a successful call resolves with the
\* full response exactly when the response headers carry isBlob or the
\* descriptor asked for returnFullResponse, and with response.data otherwise,
\* whatever the business code and hasErrorMessage are.
C7_ShapeOfResult ==
  \A c \in Calls :
    (Done(c) /\ Succeeded(c) /\ responseInterceptor = "none") =>
      /\ rejected[c] = Null
      /\ resolved[c] = IF envelope[c].headers.isBlob \/ orig[c].returnFullResponse = "true"
                       THEN envelope[c]
                       ELSE envelope[c].data

C7_Witness ==
  \E c \in Calls :
    /\ Done(c) /\ Succeeded(c) /\ responseInterceptor = "none"
    /\ envelope[c].headers.isBlob
    /\ orig[c].returnFullResponse = "undefined"
    /\ envelope[c].data.code # successStatusCode
    /\ resolved[c] = envelope[c]

\* C8: with a responseInterceptor that returns, a successful call resolves
\* with exactly the value it returned for the response; the gateway neither
\* invokes onError nor applies the isBlob / returnFullResponse choice.
C8_HookDecides ==
  \A c \in Calls :
    (Done(c) /\ Succeeded(c) /\ responseInterceptor \in {"identity", "custom"}) =>
      /\ resolved[c] = IF responseInterceptor = "custom"
                       THEN [kind |-> "hooked", of |-> envelope[c]]
                       ELSE envelope[c]
      /\ rejected[c] = Null
      /\ NotesOf(c) = << >>

C8_Witness ==
  \E c \in Calls :
    /\ Done(c) /\ Succeeded(c) /\ responseInterceptor = "identity"
    /\ ~envelope[c].headers.isBlob
    /\ orig[c].returnFullResponse = "undefined"
    /\ orig[c].hasErrorMessage = "true"
    /\ envelope[c].data.code # successStatusCode
    /\ onError
    /\ resolved[c] = envelope[c]

\* C9: a call never has both a resolved value and a rejection, a finished
\* call has exactly one of them, and whenever the chain failed (transport
\* failure of any kind) the call rejects with that same failure, changed at
\* most in its message, and resolves nothing.
C9_OneOutcome ==
  \A c \in Calls :
    /\ ~(resolved[c] # Null /\ rejected[c] # Null)
    /\ Done(c) => (resolved[c] # Null \/ rejected[c] # Null)
    /\ ~Done(c) => (resolved[c] = Null /\ rejected[c] = Null)
    /\ (Done(c) /\ Failed(c)) =>
          /\ resolved[c] = Null
          /\ rejected[c] # Null
          /\ SameFailure(rejected[c], failure[c])

C9_Witness ==
  \E c \in Calls :
    /\ Done(c) /\ Failed(c)
    /\ failure[c].origin = "http"
    /\ orig[c].hasErrorMessage = "undefined"
    /\ rejected[c].message # failure[c].message
    /\ SameFailure(rejected[c], failure[c])

\* The descriptor the requestInterceptor option returns for call c.
C10_Shaped(c) ==
  IF requestInterceptor = "authorize"
  THEN [orig[c] EXCEPT !.headers =
          [h \in (DOMAIN orig[c].headers) \cup {"Authorization"} |->
             IF h = "Authorization" THEN "Bearer token" ELSE orig[c].headers[h]]]
  ELSE orig[c]

C11_MultipartUnlessOverridden ==
  \A c \in Calls :
    (called[c] # Null /\ called[c].kind = "upload") =>
      LET extra == called[c].config
          supplies == extra.hasHeaders /\ "Content-Type" \in DOMAIN extra.headers
      IN  ~supplies =>
            /\ "Content-Type" \in DOMAIN orig[c].headers
            /\ orig[c].headers["Content-Type"] = "multipart/form-data"

\* C13 (as claimed): without a responseInterceptor, a successful response
\* whose body carries no business code never has onError invoked, even with
\* hasErrorMessage true.
C13_NoCodeNoNotice ==
  \A c \in Calls :
    (Succeeded(c) /\ responseInterceptor = "none" /\ envelope[c].data.code = "undefined")
      => NotesOf(c) = << >>

\* What call c alone yields from its own descriptor and the transport's
\* answer to it: resolved value, rejection, messages to onError.
C12_Alone(c) ==
  IF Succeeded(c)
  THEN IF responseInterceptor = "throw"
       THEN [resolved |-> Null, rejected |-> HookError("responseInterceptor"), notes |-> << >>]
       ELSE LET r == OnFulfilled(Response(RequestHookReturn(requestInterceptor, orig[c]),
                                          envelope[c].headers.isBlob, envelope[c].data),
                                 responseInterceptor, successStatusCode, onError)
            IN  [resolved |-> r.value, rejected |-> Null, notes |-> r.notify]
  ELSE LET r == OnRejected(IF failure[c].hasConfig
                           THEN [failure[c] EXCEPT
                                   !.config = RequestHookReturn(requestInterceptor, orig[c])]
                           ELSE failure[c],
                           ResolveStatusMap(statusMapOption), onError)
       IN  [resolved |-> Null, rejected |-> r.error, notes |-> r.notify]

C12_SameInputs(a, b) ==
  /\ orig[a] = orig[b]
  /\ envelope[a] = envelope[b]
  /\ failure[a] = failure[b]

C12_AsAlone ==
  /\ \A c \in Calls :
        Done(c) => /\ resolved[c] = C12_Alone(c).resolved
                   /\ rejected[c] = C12_Alone(c).rejected
                   /\ NotesOf(c) = C12_Alone(c).notes
  /\ \A a, b \in Calls :
        (Done(a) /\ Done(b) /\ C12_SameInputs(a, b)) =>
          /\ resolved[a] = resolved[b]
          /\ rejected[a] = rejected[b]
          /\ NotesOf(a) = NotesOf(b)

\* C12: with several calls in flight, in any interleaving, what a finished
\* call resolved or rejected with and what onError received for it are a
\* function of the construction-time configuration, the call's own
\* descriptor and the transport's answer to that call (two calls with the
\* same descriptor and answer end the same), and no step of any call
\* changes the configuration captured at construction.
C12_CallsIndependent == [](C12_AsAlone) /\ [][config' = config]_vars

\* Call 2 has finished and was reported while call 1, made with
\* hasErrorMessage false, is still between its failure and its handler.
C12_Witness ==
  /\ NumCalls >= 2
  /\ Done(2) /\ NotesOf(2) # << >>
  /\ pc[1] = "failed"
  /\ orig[1].hasErrorMessage = "false"
  /\ orig[2].hasErrorMessage = "true"

====
